---- MODULE Spec2Model ----
(***************************************************************************)
(* Model of the authenticated request layer of frontend/lib/apiClient.js:  *)
(* the token store (in-memory fields and localStorage), request() with its *)
(* 401 handling, attemptTokenRefresh(), the subscriber list, login(),      *)
(* logout() and refreshAccessToken().                                      *)
(*                                                                         *)
(* JavaScript runs every handler to its next await without interruption,   *)
(* so each action below is one such run: the code from the resumption of   *)
(* an await (a network call settling) to the next network call or to the   *)
(* settling of the caller's promise.                                       *)
(***************************************************************************)
EXTENDS Integers, Sequences, FiniteSets, TLC

\* ------------------------------------------------------------------ bounds
NOps == 2          \* request() calls that are in progress at one time
MaxRefresh == 2    \* calls to /auth/refresh
MaxLogin == 1      \* calls to login()

Ops == 1..NOps
WideOps == 1..(NOps + 1)

\* ---------------------------------------------------------------- values
Null == 0          \* null / absent localStorage entry

\* endpoint and options of the request() calls the client's methods make
Requests ==
    { [endpoint |-> "/auth/logout", body |-> "none"],        \* logout
      [endpoint |-> "/upload/po",   body |-> "FormData"] }   \* uploadPO

NoRequest == [endpoint |-> "", body |-> "none"]

\* what fetch() can settle with for a request() call
Statuses == {200, 401, 500}
Bodies == {"empty", "detail", "message", "plain", "garbage"}
Responses ==
    [net : {TRUE}, status : Statuses, ctJson : BOOLEAN, body : Bodies]
    \cup {[net |-> FALSE, status |-> 0, ctJson |-> FALSE, body |-> "empty"]}

\* the responses the calls in progress are given: for each status a JSON
\* body and a body that does not parse, and a fetch that rejects
Replies ==
    { r \in Responses : ~r.net \/ (r.ctJson /\ r.body \in {"detail", "garbage"}) }

\* what the call to /auth/refresh can settle with: a 2xx response with a
\* JSON body, a non-2xx response, a rejected fetch, a 2xx response whose
\* body response.json() cannot parse
RefreshOutcomes == {"ok", "http", "network", "parse"}

\* a call to /auth/refresh: who made it ("request" with the slot of the call
\* while it is pending, or "manual"), the refresh token it sent, its state
\* ("pending", "ok", "failed"), the access token it produced, and for a
\* call request() made the token the triggering call was first sent with and
\* whether that call was sent while no refresh was pending
RefreshCall(src, slot, rt, sentWith, idle) ==
    [src |-> src, slot |-> slot, rt |-> rt, st |-> "pending", tok |-> Null,
     sentWith |-> sentWith, idle |-> idle]

Settled(c, st, tok) == [c EXCEPT !.slot = 0, !.st = st, !.tok = tok]

\* the server issues a new token at each successful refresh and login: the
\* access token of the i-th call to /auth/refresh, the access token, the
\* refresh token and the user of the k-th login that succeeds
RefreshedToken(i) == 10 + i
LoginToken(k) == 20 + k
LoginRefreshToken(k) == 30 + k
LoginUser(k) == 40 + k

EmptyStore == [accessToken |-> Null, refreshToken |-> Null, user |-> Null]

\* what a step returned or threw to a caller: attempt is the number of
\* fetches the request() call made, 0 for refreshAccessToken(); msg is the
\* message of the Error thrown or the data returned; reply is the response
\* request() decoded in that step
NoReply == [net |-> FALSE, status |-> 0, ctJson |-> FALSE, body |-> "none"]
NoReturn == [kind |-> "none", status |-> 0, attempt |-> 0, msg |-> "",
             reply |-> NoReply]

VARIABLES
    browser,            \* typeof window !== 'undefined'
    token,              \* this.token
    refreshToken,       \* this.refreshToken
    store,              \* localStorage: accessToken, refreshToken, user
    isRefreshing,       \* this.isRefreshing
    refreshSubscribers, \* this.refreshSubscribers (the calls queued)
    pc,                 \* where each request() call in progress stands
    req,                \* endpoint and options each call was given
    sends,              \* the fetches each call has made, in order
    got,                \* the status that made a call start or await a refresh
    waitedOn,           \* the refresh call in flight when a call was queued
    resolvedBy,         \* the refresh call whose success resent a call
    idleAtIssue,        \* no call to /auth/refresh was pending at the send
    returned,           \* what the last step returned or threw, if it did
    refreshLog,         \* the calls to /auth/refresh, in order of initiation
    logins,             \* login() calls made
    loginInFlight,      \* login() calls awaiting /auth/login
    redirects,          \* assignments of '/login' to window.location.href
    written,            \* what the session's setters were last called with
    aborted,            \* the calls in progress their callers have given up
    loggedOut           \* logout() has completed and no login has succeeded since

vars == << browser, token, refreshToken, store, isRefreshing,
           refreshSubscribers, pc, req, sends, got, waitedOn, resolvedBy,
           idleAtIssue, returned, refreshLog, logins, loginInFlight,
           redirects , written , aborted , loggedOut >>

\* the fields of one call in progress, the token store, the login state
callVars == << pc, req, sends, got, waitedOn, resolvedBy, idleAtIssue >>
tokenVars == << token, refreshToken, store >>
loginVars == << logins, loginInFlight >>

\* ------------------------------------------------------------ token store
\* setToken: the persisted part
\* localStorage.setItem(key, value) stores String(value): a token that is a
\* string is stored as it is, an absent one (undefined) as the text
\* "undefined", which getItem later returns as a string like any other
UndefinedText == 3
Stored(t) == IF t = Null THEN UndefinedText ELSE t

SetTokenStoreBothKeys(s, t) ==
    IF browser THEN [s EXCEPT !.accessToken = t, !.refreshToken = t] ELSE s

SetTokenStoreKeepsOlder(s, t) ==
    IF browser /\ s.accessToken = Null THEN [s EXCEPT !.accessToken = t] ELSE s

SetTokenStoreMemoryOnly(s, t) == s

SetTokenStore(s, t) ==
    IF browser THEN [s EXCEPT !.accessToken = Stored(t)] ELSE s

\* a setRefreshToken that writes nothing to localStorage
SetRefreshTokenStoreMemoryOnly(s, t) == s

\* setRefreshToken: the persisted part
SetRefreshTokenStore(s, t) ==
    IF browser THEN [s EXCEPT !.refreshToken = Stored(t)] ELSE s

\* a clearToken that leaves the cached user in localStorage
ClearTokenStoreNothing(s) == s

ClearTokenStoreAccessOnly(s) ==
    IF browser THEN [s EXCEPT !.accessToken = Null] ELSE s

ClearTokenStoreKeepsUser(s) ==
    IF browser THEN [s EXCEPT !.accessToken = Null, !.refreshToken = Null]
    ELSE s

\* clearToken: the persisted part
ClearTokenStore(s) ==
    IF browser THEN EmptyStore ELSE s

\* constructor: the tokens a new client starts with over a persisted store
LoadTokenFromRefreshKey(s) == IF browser THEN s.refreshToken ELSE Null

LoadToken(s) == IF browser THEN s.accessToken ELSE Null
LoadRefreshToken(s) == IF browser THEN s.refreshToken ELSE Null

\* ------------------------------------------------------- request building
\* request(): headers and body of the fetch, from the options and this.token
BuildRequestWithoutAuth(r, tok, retry) ==
    [ endpoint |-> r.endpoint,
      auth     |-> Null,
      ctype    |-> IF r.body = "FormData" THEN "absent" ELSE "application/json",
      body     |-> IF r.body = "object" THEN "json" ELSE r.body,
      retry    |-> retry ]

BuildRequestAlwaysJson(r, tok, retry) ==
    [ endpoint |-> r.endpoint,
      auth     |-> tok,
      ctype    |-> "application/json",
      body     |-> IF r.body \in {"object", "FormData"} THEN "json" ELSE r.body,
      retry    |-> retry ]

BuildRequest(r, tok, retry) ==
    [ endpoint |-> r.endpoint,
      auth     |-> tok,
      ctype    |-> IF r.body = "FormData" THEN "absent" ELSE "application/json",
      body     |-> IF r.body = "object" THEN "json" ELSE r.body,
      retry    |-> retry ]

\* a request() that forgets its retryOnUnauthorized argument
ShouldRefreshOnAnyError(status, retry, rt) ==
    status # 200 /\ retry /\ rt # Null

ShouldRefreshWithoutToken(status, retry, rt) ==
    status = 401 /\ retry

ShouldRefreshOrBusy(status, retry, rt) ==
    (status = 401 /\ retry /\ rt # Null) \/ (isRefreshing /\ retry)

ShouldRefreshIgnoringRetry(status, retry, rt) ==
    status = 401 /\ rt # Null

\* request(): the condition under which a response starts the refresh logic
ShouldRefresh(status, retry, rt) ==
    status = 401 /\ retry /\ rt # Null

\* request(): decoding of a response that does not start the refresh logic
ParsesJsonTypeOnly(r) ==
    r.ctJson /\ r.body \in {"detail", "message", "plain"}

Parses(r) ==
    IF r.ctJson THEN r.body \in {"detail", "message", "plain"}
    ELSE r.body # "garbage"

HandleResponse(r) ==
    IF ~r.net THEN
        [kind |-> "NetworkFailure", status |-> 0, msg |-> "fetch"]
    ELSE IF ~Parses(r) THEN
        [kind |-> "ParseFailure", status |-> r.status, msg |-> "SyntaxError"]
    ELSE IF r.status # 200 THEN
        [kind |-> "ApiError", status |-> r.status,
         msg |-> IF r.body \in {"detail", "message"} THEN r.body
                 ELSE "API request failed: status"]
    ELSE [kind |-> "ok", status |-> 200,
          msg |-> IF ~r.ctJson /\ r.body = "empty" THEN "{}" ELSE r.body]

\* the error attemptTokenRefresh rethrows for each failed outcome
RefreshError(outcome) ==
    CASE outcome = "http"    -> "RefreshFailed: Token refresh failed"
      [] outcome = "network" -> "RefreshFailed: NetworkFailure"
      [] outcome = "parse"   -> "RefreshFailed: ParseFailure"

\* ---------------------------------------------------------------- helpers
RECURSIVE SeqToSet(_)
SeqToSet(s) == IF s = << >> THEN {} ELSE {Head(s)} \cup SeqToSet(Tail(s))

Pending == { i \in 1..Len(refreshLog) : refreshLog[i].st = "pending" }

\* the outstanding call to /auth/refresh that request() call o started
CycleOf(o) ==
    CHOOSE i \in 1..Len(refreshLog) :
        refreshLog[i].slot = o /\ refreshLog[i].st = "pending"

\* the outstanding call to /auth/refresh that some request() call started
CurrentCycle ==
    LET cs == { i \in 1..Len(refreshLog) :
                  refreshLog[i].src = "request" /\ refreshLog[i].st = "pending" }
    IN  IF cs = {} THEN 0 ELSE CHOOSE i \in cs : TRUE

\* ------------------------------------------------------------------- Init
InitSlots(S) ==
    /\ browser \in BOOLEAN
    /\ store = IF browser
                THEN [accessToken |-> 1, refreshToken |-> 2, user |-> 1]
                ELSE EmptyStore
    /\ token = LoadToken(store)
    /\ refreshToken = LoadRefreshToken(store)
    /\ isRefreshing = FALSE
    /\ refreshSubscribers = << >>
    /\ pc = [o \in S |-> "free"]
    /\ req = [o \in S |-> NoRequest]
    /\ sends = [o \in S |-> << >>]
    /\ got = [o \in S |-> 0]
    /\ waitedOn = [o \in S |-> 0]
    /\ resolvedBy = [o \in S |-> 0]
    /\ idleAtIssue = [o \in S |-> FALSE]
    /\ returned = NoReturn
    /\ refreshLog = << >>
    /\ logins = 0
    /\ loginInFlight = 0
    /\ redirects = 0
    /\ aborted = {}
    /\ loggedOut = FALSE
    /\ written = [accessToken |-> store.accessToken,
                  refreshToken |-> store.refreshToken,
                  user |-> store.user, restarted |-> FALSE]

Init == InitSlots(Ops)

\* the slots of this run
Slots == DOMAIN pc

\* ---------------------------------------------------------------- request
\* request(endpoint, options): builds the fetch with the current token and
\* sends it.  A call in progress holds a slot; it takes the lowest free one.
Issue(o, r) ==
    /\ pc[o] = "free"
    /\ \A p \in Slots : p < o => pc[p] # "free"
    /\ req' = [req EXCEPT ![o] = r]
    /\ sends' = [sends EXCEPT ![o] = << BuildRequest(r, token, TRUE) >>]
    /\ pc' = [pc EXCEPT ![o] = "sent"]
    /\ idleAtIssue' = [idleAtIssue EXCEPT ![o] = (Pending = {})]
    /\ returned' = NoReturn
    /\ aborted' = aborted \ {o}
    /\ UNCHANGED << browser, loggedOut, written, tokenVars, isRefreshing, refreshSubscribers,
                    got, waitedOn, resolvedBy, refreshLog, loginVars,
                    redirects >>

Retry(o) == sends[o][Len(sends[o])].retry

\* 401, not refreshing: set isRefreshing and call attemptTokenRefresh, which
\* finds the refresh token present and sends the call to /auth/refresh
StartRefresh(o, r) ==
    /\ ~isRefreshing
    /\ Len(refreshLog) < MaxRefresh
    /\ isRefreshing' = TRUE
    /\ refreshLog' = Append(refreshLog,
           RefreshCall("request", o, refreshToken, sends[o][1].auth,
                       idleAtIssue[o]))
    /\ pc' = [pc EXCEPT ![o] = "refreshing"]
    /\ got' = [got EXCEPT ![o] = r.status]
    /\ returned' = NoReturn
    /\ UNCHANGED << browser, loggedOut, aborted, written, tokenVars, refreshSubscribers, req, sends,
                    waitedOn, resolvedBy, idleAtIssue, loginVars,
                    redirects >>

\* 401, refreshing: subscribeTokenRefresh with a callback that resends
Enqueue(o, r) ==
    /\ isRefreshing
    /\ refreshSubscribers' = Append(refreshSubscribers, o)
    /\ waitedOn' = [waitedOn EXCEPT ![o] = CurrentCycle]
    /\ pc' = [pc EXCEPT ![o] = "waiting"]
    /\ got' = [got EXCEPT ![o] = r.status]
    /\ returned' = NoReturn
    /\ UNCHANGED << browser, loggedOut, aborted, written, tokenVars, isRefreshing, req, sends, resolvedBy,
                    idleAtIssue, refreshLog, loginVars, redirects >>

\* the call in slot o returns or throws: the slot is free again
Release(o) ==
    /\ pc' = [pc EXCEPT ![o] = "free"]
    /\ req' = [req EXCEPT ![o] = NoRequest]
    /\ sends' = [sends EXCEPT ![o] = << >>]
    /\ got' = [got EXCEPT ![o] = 0]
    /\ waitedOn' = [waitedOn EXCEPT ![o] = 0]
    /\ resolvedBy' = [resolvedBy EXCEPT ![o] = 0]
    /\ idleAtIssue' = [idleAtIssue EXCEPT ![o] = FALSE]

\* any other response: decode, return the data or throw; logout() clears
\* the session when its request('/auth/logout') has returned
Finish(o, r) ==
    LET h == HandleResponse(r)
        cleared == h.kind = "ok" /\ req[o].endpoint = "/auth/logout"
    IN  /\ returned' = [kind |-> h.kind, status |-> h.status,
                        attempt |-> Len(sends[o]), msg |-> h.msg,
                        reply |-> r]
        /\ Release(o)
        /\ token' = IF cleared THEN Null ELSE token
        /\ refreshToken' = IF cleared THEN Null ELSE refreshToken
        /\ store' = IF cleared THEN ClearTokenStore(store) ELSE store
        /\ loggedOut' = (cleared \/ loggedOut)
        /\ UNCHANGED << browser, aborted, written, isRefreshing, refreshSubscribers, refreshLog,
                        loginVars, redirects >>

\* the fetch of request() settles
RequestResponse(o, r) ==
    /\ pc[o] \in {"sent", "resent"}
    /\ IF r.net /\ ShouldRefresh(r.status, Retry(o), refreshToken)
       THEN StartRefresh(o, r) \/ Enqueue(o, r)
       ELSE Finish(o, r)

\* ---------------------------------------------------------------- refresh
\* isRefreshing once the awaited attemptTokenRefresh has settled: reset on
\* the success path (line 117) and in the catch block (line 121)
RefreshingAfterFailureStays(outcome) == outcome # "ok"

RefreshingAfter(outcome) == FALSE

\* a success path that resends the caller and never calls onTokenRefreshed
ResentCallerOnly(o) == {o}

\* the calls the success path resends: the subscribers, whose callbacks
\* onTokenRefreshed calls, and the caller that started the refresh
Resent(o) == SeqToSet(refreshSubscribers) \cup {o}

\* attemptTokenRefresh returns inside request(): setToken, isRefreshing =
\* false, onTokenRefreshed, request(endpoint, options, false)
RefreshSucceeds(o) ==
    LET i == CycleOf(o)
        newToken == RefreshedToken(i)
    IN  /\ token' = newToken
        /\ store' = SetTokenStore(store, newToken)
        /\ isRefreshing' = RefreshingAfter("ok")
        /\ refreshLog' = [refreshLog EXCEPT
                              ![i] = Settled(refreshLog[i], "ok", newToken)]
        /\ sends' = [w \in Slots |->
                        IF w \in Resent(o)
                        THEN Append(sends[w], BuildRequest(req[w], token', FALSE))
                        ELSE sends[w]]
        /\ pc' = [w \in Slots |-> IF w \in Resent(o) THEN "resent" ELSE pc[w]]
        /\ resolvedBy' = [w \in Slots |-> IF w \in Resent(o) THEN i ELSE resolvedBy[w]]
        /\ refreshSubscribers' = << >>
        /\ returned' = NoReturn
        /\ UNCHANGED << browser, loggedOut, aborted, written, refreshToken, req, got, waitedOn,
                        idleAtIssue, loginVars, redirects >>

\* attemptTokenRefresh throws inside request(): clearToken, isRefreshing =
\* false, redirect to /login, rethrow
RefreshFails(o, outcome) ==
    LET i == CycleOf(o)
    IN  /\ token' = Null
        /\ refreshToken' = Null
        /\ store' = ClearTokenStore(store)
        /\ isRefreshing' = RefreshingAfter(outcome)
        /\ redirects' = IF browser THEN redirects + 1 ELSE redirects
        /\ refreshLog' = [refreshLog EXCEPT
                              ![i] = Settled(refreshLog[i], "failed", Null)]
        /\ returned' = [NoReturn EXCEPT !.kind = RefreshError(outcome),
                                        !.status = 401,
                                        !.attempt = Len(sends[o])]
        /\ Release(o)
        /\ UNCHANGED << browser, loggedOut, aborted, written, refreshSubscribers, loginVars >>

\* the call to /auth/refresh made for request() settles
RefreshSettles(o, outcome) ==
    /\ pc[o] = "refreshing"
    /\ IF outcome = "ok" THEN RefreshSucceeds(o) ELSE RefreshFails(o, outcome)

\* attemptTokenRefresh's first test: if (!this.refreshToken) throw
NoRefreshTokenNever(rt) == FALSE

NoRefreshToken(rt) == rt = Null

\* refreshAccessToken(): attemptTokenRefresh called by the application
ManualRefresh ==
    IF NoRefreshToken(refreshToken)
    THEN /\ returned' = [NoReturn EXCEPT
                             !.kind = "No refresh token available"]
         /\ UNCHANGED << browser, loggedOut, aborted, written, tokenVars, isRefreshing, refreshSubscribers,
                         callVars, refreshLog, loginVars, redirects >>
    ELSE /\ Len(refreshLog) < MaxRefresh
         /\ refreshLog' = Append(refreshLog,
                RefreshCall("manual", 0, refreshToken, Null, FALSE))
         /\ returned' = NoReturn
         /\ UNCHANGED << browser, loggedOut, aborted, written, tokenVars, isRefreshing, refreshSubscribers,
                         callVars, loginVars, redirects >>

\* the call to /auth/refresh made for refreshAccessToken() settles
ManualRefreshSettles(i, outcome) ==
    /\ i \in Pending
    /\ refreshLog[i].src = "manual"
    /\ IF outcome = "ok"
       THEN /\ token' = RefreshedToken(i)
            /\ store' = SetTokenStore(store, RefreshedToken(i))
            /\ refreshLog' = [refreshLog EXCEPT
                    ![i] = Settled(refreshLog[i], "ok", RefreshedToken(i))]
            /\ returned' = [NoReturn EXCEPT !.kind = "ok", !.status = 200]
            /\ UNCHANGED refreshToken
       ELSE /\ token' = Null
            /\ refreshToken' = Null
            /\ store' = ClearTokenStore(store)
            /\ refreshLog' = [refreshLog EXCEPT
                                  ![i] = Settled(refreshLog[i], "failed", Null)]
            /\ returned' = [NoReturn EXCEPT !.kind = RefreshError(outcome)]
    /\ UNCHANGED << browser, loggedOut, aborted, written, isRefreshing, refreshSubscribers, callVars,
                    loginVars, redirects >>

\* ------------------------------------------------------------------ login
\* login(): sends the form to /auth/login
LoginStart ==
    /\ logins < MaxLogin
    /\ logins' = logins + 1
    /\ loginInFlight' = loginInFlight + 1
    /\ returned' = NoReturn
    /\ UNCHANGED << browser, loggedOut, aborted, written, tokenVars, isRefreshing, refreshSubscribers,
                    callVars, refreshLog, redirects >>

\* /auth/login settles: on a 2xx response store access_token, refresh_token
\* when the response has one, and the user, and return the data (returned
\* notes whether it had a refresh_token); otherwise throw
LoginSettles(ok, withRefresh) ==
    /\ loginInFlight > 0
    /\ loginInFlight' = loginInFlight - 1
    /\ IF ok
       THEN LET k == logins - loginInFlight + 1
            IN  /\ token' = LoginToken(k)
                /\ refreshToken' = IF withRefresh THEN LoginRefreshToken(k)
                                    ELSE refreshToken
                /\ store' =
                     LET s1 == SetTokenStore(store, LoginToken(k))
                         s2 == IF withRefresh
                               THEN SetRefreshTokenStore(s1, LoginRefreshToken(k))
                               ELSE s1
                     IN  IF browser THEN [s2 EXCEPT !.user = LoginUser(k)]
                         ELSE s2
       ELSE UNCHANGED << token, refreshToken, store >>
    /\ loggedOut' = (~ok /\ loggedOut)
    /\ returned' = IF ok
                   THEN [NoReturn EXCEPT
                            !.kind = "login", !.status = 200,
                            !.msg = IF withRefresh THEN "refresh_token" ELSE ""]
                   ELSE [NoReturn EXCEPT !.kind = "Login failed"]
    /\ UNCHANGED << browser, aborted, written, isRefreshing, refreshSubscribers, callVars,
                    refreshLog, logins, redirects >>

\* ------------------------------------------------------------------- Next
Next ==
    \/ \E o \in Ops, r \in Requests : Issue(o, r)
    \/ \E o \in Ops, r \in Replies : RequestResponse(o, r)
    \/ \E o \in Ops, outcome \in RefreshOutcomes : RefreshSettles(o, outcome)
    \/ ManualRefresh
    \/ \E i \in 1..MaxRefresh, outcome \in RefreshOutcomes :
           ManualRefreshSettles(i, outcome)
    \/ LoginStart
    \/ \E ok \in BOOLEAN, withRefresh \in BOOLEAN : LoginSettles(ok, withRefresh)

Spec == Init /\ [][Next]_vars

\* A fetch of /auth/refresh settles: the promise awaited at line 59 resolves
\* or rejects, and the continuation of attemptTokenRefresh then runs.
RefreshFetchSettles ==
    \E o \in Ops, outcome \in RefreshOutcomes : RefreshSettles(o, outcome)

FairSpec == Spec /\ WF_vars(RefreshFetchSettles)

\* request() alone, with one more call in progress at a time: a refresh, a
\* call waiting for it and a further call fit together.
WideInit == InitSlots(WideOps)

WideNext ==
    \/ \E o \in WideOps, r \in Requests : Issue(o, r)
    \/ \E o \in WideOps, r \in Replies : RequestResponse(o, r)
    \/ \E o \in WideOps, outcome \in RefreshOutcomes : RefreshSettles(o, outcome)

WideSpec == WideInit /\ [][WideNext]_vars

\* A caller gives up a call that is waiting in refreshSubscribers.  The
\* promise request() returned and the callback it queued (lines 130-139)
\* have no handle by which they could be withdrawn, so nothing else changes.
Abort(o) ==
    /\ pc[o] = "waiting"
    /\ o \notin aborted
    /\ aborted' = aborted \cup {o}
    /\ returned' = NoReturn
    /\ UNCHANGED << browser, loggedOut, written, tokenVars, isRefreshing,
                    refreshSubscribers, callVars, refreshLog, loginVars,
                    redirects >>

CancelNext ==
    \/ WideNext
    \/ \E o \in WideOps : Abort(o)

CancelSpec == WideInit /\ [][CancelNext]_vars

\* The client when logout() is the only method that calls request().
LogoutRequests == { r \in Requests : r.endpoint = "/auth/logout" }

LogoutNext ==
    \/ \E o \in Ops, r \in LogoutRequests : Issue(o, r)
    \/ \E o \in Ops, r \in Replies : RequestResponse(o, r)
    \/ \E o \in Ops, outcome \in RefreshOutcomes : RefreshSettles(o, outcome)
    \/ ManualRefresh
    \/ \E i \in 1..MaxRefresh, outcome \in RefreshOutcomes :
           ManualRefreshSettles(i, outcome)
    \/ LoginStart
    \/ \E ok \in BOOLEAN, withRefresh \in BOOLEAN : LoginSettles(ok, withRefresh)

LogoutSpec == Init /\ [][LogoutNext]_vars

\* The session methods when a 2xx answer may lack the fields they read.
\* /auth/refresh answers 2xx with JSON that has no access_token:
\* setToken(undefined), and undefined is returned
ManualRefreshSettlesBare(i) ==
    /\ i \in Pending
    /\ refreshLog[i].src = "manual"
    /\ token' = Null
    /\ store' = SetTokenStore(store, Null)
    /\ refreshLog' = [refreshLog EXCEPT ![i] = Settled(refreshLog[i], "ok", Null)]
    /\ returned' = [NoReturn EXCEPT !.kind = "ok", !.status = 200]
    /\ UNCHANGED << browser, loggedOut, aborted, written, refreshToken, isRefreshing,
                    refreshSubscribers, callVars, loginVars, redirects >>

\* /auth/login answers 2xx with JSON that has none of access_token,
\* refresh_token and user: setToken(undefined), no setRefreshToken, and
\* setItem('user', JSON.stringify(undefined))
LoginSettlesBare ==
    /\ loginInFlight > 0
    /\ loginInFlight' = loginInFlight - 1
    /\ token' = Null
    /\ store' = LET s1 == SetTokenStore(store, Null)
                IN  IF browser THEN [s1 EXCEPT !.user = UndefinedText] ELSE s1
    /\ loggedOut' = FALSE
    /\ returned' = [NoReturn EXCEPT !.kind = "login", !.status = 200]
    /\ UNCHANGED << browser, aborted, written, refreshToken, isRefreshing,
                    refreshSubscribers, callVars, refreshLog, logins, redirects >>

BareNext ==
    \/ LogoutNext
    \/ \E i \in 1..MaxRefresh : ManualRefreshSettlesBare(i)
    \/ LoginSettlesBare

BareSpec == Init /\ [][BareNext]_vars

\* request() alone, given every kind of body and every response.
AllRequests ==
    Requests \cup { [endpoint |-> "/auth/register", body |-> "object"],   \* register
                    [endpoint |-> "/assets/",       body |-> "string"] }  \* createAsset

RequestNext ==
    \/ \E o \in Ops, r \in AllRequests : Issue(o, r)
    \/ \E o \in Ops, r \in Responses : RequestResponse(o, r)
    \/ \E o \in Ops, outcome \in RefreshOutcomes : RefreshSettles(o, outcome)

RequestSpec == Init /\ [][RequestNext]_vars

\* The session's setters on their own, and the construction of a new
\* ApiClient over the localStorage the previous one left behind.
TokenValues ==
    { RefreshedToken(i) : i \in 1..MaxRefresh } \cup { LoginToken(k) : k \in 1..MaxLogin }
RefreshTokenValues == { LoginRefreshToken(k) : k \in 1..MaxLogin + 1 }
UserValues == { LoginUser(k) : k \in 1..MaxLogin + 1 }

SetToken(t) ==
    /\ token' = t
    /\ store' = SetTokenStore(store, t)
    /\ written' = [written EXCEPT !.accessToken = t]
    /\ UNCHANGED << browser, loggedOut, aborted, refreshToken, isRefreshing, refreshSubscribers,
                    callVars, returned, refreshLog, loginVars, redirects >>

SetRefreshToken(t) ==
    /\ refreshToken' = t
    /\ store' = SetRefreshTokenStore(store, t)
    /\ written' = [written EXCEPT !.refreshToken = t]
    /\ UNCHANGED << browser, loggedOut, aborted, token, isRefreshing, refreshSubscribers,
                    callVars, returned, refreshLog, loginVars, redirects >>

StoreUser(u) ==
    /\ browser
    /\ store' = [store EXCEPT !.user = u]
    /\ written' = [written EXCEPT !.user = u]
    /\ UNCHANGED << browser, loggedOut, aborted, token, refreshToken, isRefreshing,
                    refreshSubscribers, callVars, returned, refreshLog,
                    loginVars, redirects >>

ClearToken ==
    /\ token' = Null
    /\ refreshToken' = Null
    /\ store' = ClearTokenStore(store)
    /\ written' = [written EXCEPT !.accessToken = Null, !.refreshToken = Null,
                                  !.user = Null]
    /\ UNCHANGED << browser, loggedOut, aborted, isRefreshing, refreshSubscribers, callVars,
                    returned, refreshLog, loginVars, redirects >>

Construct ==
    /\ token' = LoadToken(store)
    /\ refreshToken' = LoadRefreshToken(store)
    /\ isRefreshing' = FALSE
    /\ refreshSubscribers' = << >>
    /\ written' = IF browser
                   THEN [written EXCEPT !.restarted = TRUE]
                   ELSE [accessToken |-> Null, refreshToken |-> Null,
                         user |-> Null, restarted |-> TRUE]
    /\ UNCHANGED << browser, loggedOut, aborted, store, callVars, returned, refreshLog, loginVars,
                    redirects >>

StoreNext ==
    \/ \E t \in TokenValues : SetToken(t)
    \/ \E t \in RefreshTokenValues : SetRefreshToken(t)
    \/ \E u \in UserValues : StoreUser(u)
    \/ ClearToken
    \/ Construct

StoreSpec == Init /\ [][StoreNext]_vars

TypeOK ==
    /\ token \in Nat /\ refreshToken \in Nat
    /\ isRefreshing \in BOOLEAN
    /\ \A o \in Slots : pc[o] \in {"free", "sent", "refreshing", "waiting",
                                 "resent"}
    /\ \A o \in Slots : got[o] \in Statuses \cup {0}
    /\ aborted \subseteq Slots
    /\ Len(refreshLog) <= MaxRefresh


\* ================================================================= claims
RefreshErrors == { RefreshError(x) : x \in RefreshOutcomes \ {"ok"} }

RequestCalls == { i \in 1..Len(refreshLog) : refreshLog[i].src = "request" }

\* C1: calls sent with the same access token while no refresh was pending,
\* which all receive a 401, cause exactly one call to /auth/refresh: no two
\* of the refresh calls request() made were started by calls that were first
\* sent with the same token.
C1_SingleFlight ==
    \A i \in RequestCalls :
        (refreshLog[i].idle /\ refreshLog[i].sentWith # Null) =>
            Cardinality({ j \in RequestCalls :
                            /\ refreshLog[j].idle
                            /\ refreshLog[j].sentWith = refreshLog[i].sentWith })
                = 1

\* C2: at most one call to /auth/refresh is outstanding at any time.
C2_AtMostOneRefreshOutstanding ==
    Cardinality(Pending) <= 1

\* C3: after a refresh succeeds, the call that started it and every call
\* queued during it have been resent exactly once, to the same endpoint with
\* the same body and content type, carrying the access token that refresh
\* produced, and with retrying switched off; no call makes a third fetch.
C3_FanOutCorrectness ==
    \A o \in Ops :
        /\ Len(sends[o]) <= 2
        /\ pc[o] = "waiting" => refreshLog[waitedOn[o]].st # "ok"
        /\ pc[o] = "resent" =>
              /\ Len(sends[o]) = 2
              /\ refreshLog[resolvedBy[o]].st = "ok"
              /\ sends[o][2] = [sends[o][1] EXCEPT
                                   !.auth = refreshLog[resolvedBy[o]].tok,
                                   !.retry = FALSE]
              /\ sends[o][2].auth # Null

\* a refresh has succeeded and resent its caller and a call queued during it
C3_Witness ==
    \E o, w \in Ops :
        /\ o # w
        /\ pc[o] = "resent" /\ pc[w] = "resent"
        /\ waitedOn[o] = 0
        /\ waitedOn[w] = resolvedBy[o] /\ resolvedBy[w] = resolvedBy[o]

\* C4: when a refresh fails, every call queued during it is rejected in the
\* handling of the failure: no call is still suspended on a refresh that
\* has failed.
C4_FanOutFailure ==
    \A o \in Ops :
        pc[o] = "waiting" => refreshLog[waitedOn[o]].st # "failed"

\* C5: every call returns once the network calls it depends on have
\* completed: when no fetch, no refresh and no login is outstanding, no
\* request() call is still in progress.
C5_AllCallsReturn ==
    ( /\ \A o \in Ops : pc[o] \notin {"sent", "resent", "refreshing"}
      /\ Pending = {}
      /\ loginInFlight = 0 )
    => \A o \in Ops : pc[o] = "free"

\* C6: a call makes at most two fetches, the second with retrying off; a
\* call that has been resent never starts a refresh nor waits for one, so it
\* starts at most one refresh; a 401 to the resend is thrown to the caller.
C6_RetryBound ==
    /\ \A o \in Ops :
          /\ Len(sends[o]) <= 2
          /\ Len(sends[o]) = 2 => pc[o] = "resent" /\ ~sends[o][2].retry
          /\ pc[o] \in {"refreshing", "waiting"} =>
                Len(sends[o]) = 1 /\ sends[o][1].retry
          /\ Cardinality({ i \in 1..Len(refreshLog) : refreshLog[i].slot = o }) <= 1
    /\ (returned.attempt = 2 /\ returned.status = 401) =>
          returned.kind \in {"ApiError", "ParseFailure"}

\* a resend has received a 401 and the call has thrown an API error
C6_Witness ==
    returned.attempt = 2 /\ returned.status = 401 /\ returned.kind = "ApiError"

\* C7: the subscriber list is non-empty only while isRefreshing is true.
C7_WaitersOnlyWhileRefreshing ==
    refreshSubscribers # << >> => isRefreshing

\* C8: isRefreshing is true whenever a call to /auth/refresh is outstanding.
C8_RefreshingWhileOutstanding ==
    Pending # {} => isRefreshing

\* C9: a call queued during a refresh is resolved by the outcome of that
\* refresh: a call that was queued and has been resent was resent by the
\* success of the refresh it was queued on.
C9_ConsistentOutcome ==
    \A o \in Ops :
        (pc[o] = "resent" /\ waitedOn[o] # 0) => resolvedBy[o] = waitedOn[o]

\* C10: in the state a failed refresh leaves, the access token and the
\* refresh token are null and localStorage holds none of accessToken,
\* refreshToken, user.
C10_FailedRefreshClearsSession ==
    returned.kind \in RefreshErrors =>
        /\ token = Null
        /\ refreshToken = Null
        /\ store = EmptyStore

\* a refresh has just failed in a browser, where the store held a session
C10_Witness ==
    /\ returned.kind \in RefreshErrors
    /\ browser
    /\ \E i \in 1..Len(refreshLog) :
          refreshLog[i].st = "failed" /\ refreshLog[i].rt # Null

\* Steps of request() that the claims below speak of.
Suspends(o) ==
    pc[o] \notin {"refreshing", "waiting"} /\ pc'[o] \in {"refreshing", "waiting"}

Returns(o) == pc[o] \in {"sent", "resent"} /\ pc'[o] = "free"

DirectErrors == {"ApiError", "ParseFailure", "NetworkFailure"}

RefreshStateUnchanged == UNCHANGED << refreshLog, isRefreshing, refreshSubscribers >>

NewRequestCycle ==
    /\ Len(refreshLog') = Len(refreshLog) + 1
    /\ refreshLog'[Len(refreshLog')].src = "request"

\* C11: request() starts or joins a refresh only on a 401 received by a call
\* that has not been resent, and only while a refresh token is stored; a call
\* that returns an error of its own (any other non-2xx status, a 401 on the
\* resend, a 401 with no refresh token) does so without a call to
\* /auth/refresh and without a change to isRefreshing or refreshSubscribers.
C11_RefreshTrigger ==
    [][ /\ \A o \in Ops :
              /\ Suspends(o) => /\ pc[o] = "sent"
                                /\ Len(sends[o]) = 1 /\ sends[o][1].retry
                                /\ got'[o] = 401
                                /\ refreshToken # Null
              /\ Returns(o) => /\ returned'.kind \in DirectErrors \cup {"ok"}
                               /\ returned'.kind = "ok" => returned'.status = 200
                               /\ RefreshStateUnchanged
        /\ NewRequestCycle => \E o \in Ops : Suspends(o) /\ pc'[o] = "refreshing"
      ]_vars

C11_Witness ==
    /\ returned.attempt = 1 /\ returned.status = 401
    /\ returned.kind = "ApiError"
    /\ isRefreshing

\* The refresh calls made so far were all made by request(), the last one
\* succeeded and none is pending, every resent call has returned, and no
\* login or logout has touched the session since.
LastRefresh == refreshLog[Len(refreshLog)]

QuietAfterRefresh ==
    /\ refreshLog # << >>
    /\ \A i \in 1..Len(refreshLog) :
          refreshLog[i].src = "request" /\ refreshLog[i].st # "pending"
    /\ LastRefresh.st = "ok"
    /\ \A o \in Ops : pc[o] # "resent"
    /\ logins = 0
    /\ token # Null

\* C12: once a refresh cycle has succeeded with token A2 and its resends
\* have returned, isRefreshing is false and A2 is the stored access token;
\* a call issued from then on is sent with Bearer A2, and unless its own
\* response is a 401 it returns without a further call to /auth/refresh.
C12_RefreshedTokenUsed ==
    [][ QuietAfterRefresh =>
          /\ ~isRefreshing
          /\ token = LastRefresh.tok
          /\ browser => store.accessToken = LastRefresh.tok
          /\ \A o \in Ops :
                /\ (pc[o] = "free" /\ pc'[o] = "sent") =>
                      sends'[o][1].auth = LastRefresh.tok
                /\ (pc[o] = "sent" /\ pc'[o] # "sent"
                      /\ sends[o][1].auth = LastRefresh.tok) =>
                      \/ got'[o] = 401
                      \/ Returns(o) /\ RefreshStateUnchanged
      ]_vars

C12_Witness ==
    /\ QuietAfterRefresh
    /\ \E o \in Ops : pc[o] = "sent" /\ sends[o][1].auth = LastRefresh.tok

FailedRefreshes == { i \in 1..Len(refreshLog) : refreshLog[i].st = "failed" }

\* C13: every failed call to /auth/refresh raises the redirect to /login
\* exactly once, whether request() or refreshAccessToken() made the call:
\* in a browser the redirects raised so far are as many as the refresh calls
\* that have failed.
C13_RedirectPerFailedRefresh ==
    browser => redirects = Cardinality(FailedRefreshes)

NewRefreshCall == Len(refreshLog') > Len(refreshLog)

FailsNow(i) == refreshLog[i].st = "pending" /\ refreshLog'[i].st = "failed"

FirstUnauthorizedReturned(o) ==
    pc[o] = "sent" /\ Returns(o) /\ returned'.status = 401

C16_IndependentCalls ==
    /\ [](\A o \in Slots :
            /\ pc[o] = "free" => ENABLED (\E p \in Slots, r \in Requests : Issue(p, r))
            /\ pc[o] \in {"sent", "resent"} =>
                  \A r \in Replies :
                      r.status # 401 => ENABLED RequestResponse(o, r))
    /\ [][ \A o \in Slots :
              (pc[o] \in {"sent", "resent"} /\ pc'[o] # pc[o]) =>
                  \/ Suspends(o) /\ got'[o] = 401
                  \/ /\ Returns(o)
                     /\ RefreshStateUnchanged
                     /\ \A w \in Slots \ {o} : pc'[w] = pc[w]
        ]_vars

C16_Witness ==
    /\ returned.kind = "ok" /\ returned.attempt = 1
    /\ isRefreshing
    /\ \E o, w \in Slots :
          /\ pc[o] = "refreshing"
          /\ pc[w] = "waiting" /\ waitedOn[w] = CycleOf(o)
          /\ refreshLog[CycleOf(o)].st = "pending"

\* a step takes away a token held in memory or an entry of localStorage
Removes ==
    \/ token # Null /\ token' = Null
    \/ refreshToken # Null /\ refreshToken' = Null
    \/ store.accessToken # Null /\ store'.accessToken = Null
    \/ store.refreshToken # Null /\ store'.refreshToken = Null
    \/ store.user # Null /\ store'.user = Null

\* C17: clearToken takes away the access token, the refresh token and the
\* cached user in one step: whenever a step removes any of them, none of
\* them is left in the state that step produces.
C17_ClearIsAtomic ==
    [][ Removes => /\ token' = Null
                   /\ refreshToken' = Null
                   /\ store' = EmptyStore
      ]_vars

C17_Witness ==
    /\ browser
    /\ token = Null /\ refreshToken = Null /\ store = EmptyStore
    /\ returned.kind = "ok" /\ returned.attempt >= 1
    /\ \E o \in Slots : pc[o] = "sent" /\ sends[o][1].auth # Null

\* C18: what setToken and setRefreshToken were last given is what the client
\* holds, and in a browser it is what localStorage holds and what a client
\* constructed afterwards over that localStorage loads; after clearToken the
\* three entries are absent and a client constructed afterwards has no
\* tokens.  (Without localStorage nothing outlives the client: written
\* starts afresh with each construction.)
C18_PersistenceRoundTrip ==
    /\ token = written.accessToken
    /\ refreshToken = written.refreshToken
    /\ store = IF browser
               THEN [accessToken |-> written.accessToken,
                     refreshToken |-> written.refreshToken,
                     user |-> written.user]
               ELSE EmptyStore

C18_Witness ==
    /\ browser /\ written.restarted
    /\ token = LoginToken(1) /\ refreshToken = LoginRefreshToken(1)
    /\ store.accessToken = LoginToken(1)

SucceedsNow(i) == refreshLog[i].st = "pending" /\ refreshLog'[i].st = "ok"

LoginTokens == { LoginToken(k) : k \in 1..MaxLogin }

\* C19: the access token held is written only by the step in which a call
\* to /auth/refresh or to /auth/login completes successfully, and that step
\* writes the token it was given, to the client and to localStorage alike;
\* every other step leaves the token alone or removes it.  So the token,
\* when present, is the one delivered by the latest such completion.
C19_LatestDeliveredToken ==
    [][ /\ (token' # token /\ token' # Null) =>
              \/ \E i \in 1..Len(refreshLog) :
                     SucceedsNow(i) /\ token' = refreshLog'[i].tok
              \/ loginInFlight' = loginInFlight - 1 /\ token' \in LoginTokens
        /\ \A i \in 1..Len(refreshLog) :
              SucceedsNow(i) => /\ refreshLog'[i].tok # Null
                                /\ token' = refreshLog'[i].tok
        /\ (browser /\ store'.accessToken # store.accessToken) =>
              store'.accessToken = token'
        /\ (browser /\ token' # token) => store'.accessToken = token'
      ]_vars

C19_Witness ==
    /\ browser
    /\ store.user = LoginUser(1)
    /\ token \in { RefreshedToken(i) : i \in 1..MaxRefresh }
    /\ store.accessToken = token
    /\ \E i \in 1..Len(refreshLog) :
          refreshLog[i].tok = token /\ refreshLog[i].rt # LoginRefreshToken(1)

SendsNow(o) == Len(sends'[o]) > Len(sends[o])

\* C20: every fetch request() makes carries the access token the client
\* holds at that moment as its Authorization header, and carries none when
\* the client holds no token; this goes for the resend as for the first send.
C20_AuthorizationHeader ==
    [][ \A o \in Slots :
          SendsNow(o) =>
              /\ Len(sends'[o]) = Len(sends[o]) + 1
              /\ sends'[o][Len(sends'[o])].auth = token'
              /\ sends'[o][Len(sends'[o])].endpoint = req'[o].endpoint
      ]_vars

C20_Witness ==
    /\ token = Null
    /\ \E o, p \in Slots :
          /\ pc[o] = "sent" /\ sends[o][1].auth # Null
          /\ pc[p] = "sent" /\ sends[p][1].auth = Null

LastSend(o) == sends'[o][Len(sends'[o])]

\* C21: a FormData body goes out as it was given, not serialized, in a
\* fetch without a Content-Type header; an object body goes out serialized
\* to JSON with Content-Type application/json; a body that is a string
\* already, or no body, goes out as given with Content-Type
\* application/json.  The resend after a refresh is built the same way.
C21_BinaryPassthrough ==
    [][ \A o \in Slots :
          SendsNow(o) =>
              /\ req'[o].body = "FormData" =>
                    LastSend(o).body = "FormData" /\ LastSend(o).ctype = "absent"
              /\ req'[o].body = "object" =>
                    /\ LastSend(o).body = "json"
                    /\ LastSend(o).ctype = "application/json"
              /\ req'[o].body \in {"string", "none"} =>
                    /\ LastSend(o).body = req'[o].body
                    /\ LastSend(o).ctype = "application/json"
      ]_vars

C21_Witness ==
    \E o, w \in Slots :
        /\ pc[o] = "resent" /\ req[o].body = "FormData"
        /\ sends[o][2].body = "FormData" /\ sends[o][2].ctype = "absent"
        /\ pc[w] = "resent" /\ req[w].body = "object"
        /\ sends[w][2].body = "json"

\* the response a step decoded was outside the success range
DecodedNon2xx == returned.reply.net /\ returned.reply.status # 200

\* C22: a response outside the success range that request() decodes (one
\* that starts no refresh) is thrown as an API error with the status of the
\* response and with the detail or message the server sent when the body
\* has one, whatever the content type and the body are.
C22_ApiErrorForNon2xx ==
    DecodedNon2xx =>
        /\ returned.kind = "ApiError"
        /\ returned.status = returned.reply.status
        /\ returned.reply.body \in {"detail", "message"} =>
              returned.msg = returned.reply.body

Decoded200 == returned.reply.net /\ returned.reply.status = 200

\* C23: of a 200 response, an empty body under a content type other than
\* JSON is returned as {}; a body that is JSON is parsed and returned under
\* either content type; a body that does not parse is thrown as a
\* SyntaxError, which is not the Error thrown for a non-2xx status, and that
\* Error is never thrown for a 200.
C23_ResponseDecoding ==
    /\ Decoded200 =>
          /\ (~returned.reply.ctJson /\ returned.reply.body = "empty") =>
                returned.kind = "ok" /\ returned.msg = "{}"
          /\ returned.reply.body \in {"detail", "message", "plain"} =>
                returned.kind = "ok" /\ returned.msg = returned.reply.body
          /\ returned.reply.body = "garbage" => returned.kind = "ParseFailure"
          /\ returned.kind # "ApiError"
    /\ returned.kind = "ParseFailure" =>
          \/ returned.reply.body = "garbage"
          \/ returned.reply.ctJson /\ returned.reply.body = "empty"

C23_Witness ==
    /\ Decoded200
    /\ ~returned.reply.ctJson /\ returned.reply.body = "empty"
    /\ returned.kind = "ok" /\ returned.msg = "{}"

\* C24: a call its caller has given up while it waited is no longer in
\* refreshSubscribers and is not resent when the refresh succeeds.
C24_AbandonedWaiterRemoved ==
    \A o \in aborted :
        /\ o \notin SeqToSet(refreshSubscribers)
        /\ pc[o] # "resent"

\* C25: a 401 that arrives after the refresh started by an earlier 401 has
\* succeeded starts no second refresh when its call was sent with the same
\* access token as the call that started the first.
C25_LateUnauthorized ==
    \A i, j \in RequestCalls :
        ( /\ i < j
          /\ refreshLog[i].st = "ok"
          /\ refreshLog[i].sentWith # Null )
        => refreshLog[j].sentWith # refreshLog[i].sentWith

\* C26: from the completion of logout() until a login succeeds, the client
\* holds no access token and no refresh token and localStorage holds none
\* of accessToken, refreshToken, user.
C26_LoggedOutStaysCleared ==
    loggedOut => token = Null /\ refreshToken = Null /\ store = EmptyStore

IsLogout(o) == req[o].endpoint = "/auth/logout"

\* C27: logout() clears the session in the step in which its request() to
\* /auth/logout returns successfully and in no earlier step of it; when
\* that request() throws an error of its own (non-2xx status, rejected
\* fetch, body that does not parse) logout() throws it and tokens and
\* localStorage are as before; when it throws because the refresh its 401
\* started failed, logout() throws that error.
C27_LogoutClearsOnSuccess ==
    [][ /\ \A o \in Slots :
          IsLogout(o) =>
              /\ (Returns(o) /\ returned'.kind = "ok") =>
                    token' = Null /\ refreshToken' = Null /\ store' = EmptyStore
              /\ (Returns(o) /\ returned'.kind # "ok") =>
                    /\ returned'.kind \in DirectErrors
                    /\ UNCHANGED tokenVars
              /\ (pc[o] = "refreshing" /\ pc'[o] = "free") =>
                    returned'.kind \in RefreshErrors
        /\ Removes =>
              \/ \E o \in Slots : IsLogout(o) /\ Returns(o) /\ returned'.kind = "ok"
              \/ \E i \in 1..Len(refreshLog) : FailsNow(i)
      ]_vars

C27_Witness ==
    /\ returned.kind \in DirectErrors /\ returned.attempt = 2
    /\ token # Null /\ refreshToken # Null
    /\ browser /\ store.user # Null
    /\ ~loggedOut

\* C28: the step in which a call to /auth/refresh succeeds writes the access
\* token, to the client and to localStorage, and leaves the refresh token
\* and the user entry as they were; the refresh token a call to
\* /auth/refresh carries is the one the client holds in the step that
\* makes the call, a step that changes no token.
C28_RefreshFrame ==
    [][ /\ \A i \in 1..Len(refreshLog) :
              SucceedsNow(i) =>
                  /\ token' = refreshLog'[i].tok
                  /\ browser => store'.accessToken = refreshLog'[i].tok
                  /\ refreshToken' = refreshToken
                  /\ store'.refreshToken = store.refreshToken
                  /\ store'.user = store.user
                  /\ refreshLog'[i].rt = refreshLog[i].rt
        /\ NewRefreshCall =>
              /\ refreshLog'[Len(refreshLog')].rt = refreshToken
              /\ refreshToken # Null
              /\ UNCHANGED tokenVars
      ]_vars

C28_Witness ==
    /\ browser
    /\ \E i \in 1..Len(refreshLog) :
          /\ refreshLog[i].st = "ok"
          /\ token = refreshLog[i].tok /\ store.accessToken = token
          /\ refreshToken = refreshLog[i].rt /\ store.refreshToken = refreshToken
          /\ store.user = 1

\* C29: in a browser the access token and the refresh token the client
\* holds are the accessToken and refreshToken entries of localStorage: the
\* same value, or absent on both sides.
C29_MemoryMatchesStore ==
    browser => /\ token = store.accessToken
               /\ refreshToken = store.refreshToken

\* C30: while the client holds no refresh token, refreshAccessToken() throws
\* 'No refresh token available'; the step that throws it sends nothing and
\* leaves the access token, localStorage, isRefreshing, refreshSubscribers
\* and every call as they were, and no step made without a refresh token
\* calls /auth/refresh.
C30_NoRefreshToken ==
    [][ /\ refreshToken = Null =>
              /\ ENABLED (ManualRefresh /\ returned'.kind = "No refresh token available")
              /\ ~NewRefreshCall
        /\ returned'.kind = "No refresh token available" =>
              /\ refreshToken = Null
              /\ UNCHANGED << tokenVars, isRefreshing, refreshSubscribers, refreshLog,
                              callVars, redirects >>
      ]_vars

C30_Witness ==
    /\ returned.kind = "No refresh token available"
    /\ refreshToken = Null
    /\ token # Null
    /\ Len(refreshLog) < MaxRefresh

\* C31: the step in which login() returns the data of a 2xx answer stores
\* the answer's access token in the client and, in a browser, in
\* localStorage together with the answer's user; it stores the answer's
\* refresh token the same way when the answer has one and leaves the
\* refresh token as it was when it has none; the step in which login()
\* throws changes no token and no entry of localStorage; and no step that
\* settles a login touches isRefreshing, refreshSubscribers, the calls to
\* /auth/refresh or any call of request().
LoginSettlesNow == loginInFlight' = loginInFlight - 1

C31_LoginFrame ==
    [][ LoginSettlesNow =>
          LET k == logins - loginInFlight + 1
          IN  /\ returned'.kind \in {"login", "Login failed"}
              /\ returned'.kind = "login" =>
                    /\ token' = LoginToken(k)
                    /\ browser => /\ store'.accessToken = LoginToken(k)
                                  /\ store'.user = LoginUser(k)
                    /\ returned'.msg = "refresh_token" =>
                          /\ refreshToken' = LoginRefreshToken(k)
                          /\ browser => store'.refreshToken = LoginRefreshToken(k)
                    /\ returned'.msg # "refresh_token" =>
                          /\ refreshToken' = refreshToken
                          /\ store'.refreshToken = store.refreshToken
              /\ returned'.kind = "Login failed" => UNCHANGED tokenVars
              /\ UNCHANGED << isRefreshing, refreshSubscribers, refreshLog,
                              callVars, redirects >>
      ]_vars

\* in a browser a login has just returned data without a refresh_token:
\* the new access token and user are stored, the refresh token loaded at
\* construction is still there
C31_Witness ==
    /\ browser
    /\ returned.kind = "login" /\ returned.msg = ""
    /\ token = LoginToken(1) /\ store.accessToken = LoginToken(1)
    /\ store.user = LoginUser(1)
    /\ refreshToken = 2 /\ store.refreshToken = 2

====
